---------------------------- MODULE Spec2Model ----------------------------
(***************************************************************************)
(* A model of 01-intro/rag_utils.py: the four functions of a small         *)
(* retrieval-augmented generation pipeline.                                *)
(*                                                                         *)
(*   load_and_indexknowledge_base  reads a JSON collection, flattens it    *)
(*                                 and fits a minsearch.Index on it        *)
(*   search                        forwards a query to Index.search       *)
(*   build_prompt                  renders the query and the results       *)
(*   llm                           sends the prompt to a chat service      *)
(*                                                                         *)
(* Python str values are TLA+ strings (Len, \o and SubSeq work on them),   *)
(* Python dicts are functions from keys to values, Python lists are        *)
(* sequences.  A call's outcome is [kind |-> "return", value |-> v] or     *)
(* [kind |-> "raise", error |-> e, ...].                                   *)
(*                                                                         *)
(* minsearch.Index and the chat client are not part of rag_utils.py.  The  *)
(* index (IndexNew, IndexFit, IndexSearch and their helpers) is modelled   *)
(* from the specification's sections 4.2 and 4.3, and where a search's     *)
(* result hangs on the library alone the library is an environment that    *)
(* behaves as any of LibraryBehaviours; the chat service is an environment *)
(* whose answer to a request is any of ServiceAnswers.                     *)
(***************************************************************************)
EXTENDS Integers, Sequences, FiniteSets, TLC

VARIABLES
    docs_raw,    \* the parsed content of the JSON file (a list of groups)
    knowledge_base, \* the loader's list as it is handed to Index.fit
    index,       \* the minsearch.Index built by the loader, or NoIndex
    s_call,      \* the last completed call of search, or NoCall
    results_in,  \* a list of documents at hand for build_prompt
    p_first,     \* the first completed call of build_prompt, or NoCall
    p_last,      \* the last completed call of build_prompt, or NoCall
    l_call       \* the last completed call of llm, or NoCall

vars == <<docs_raw, knowledge_base, index, s_call, results_in, p_first, p_last, l_call>>

NoIndex == [fitted |-> FALSE]
NoCall == [op |-> "none"]
None == [none |-> TRUE]

Some(d) == [none |-> FALSE, val |-> d]

Return(v) == [kind |-> "return", value |-> v]

(***************************************************************************)
(* Bounds of the model.                                                    *)
(***************************************************************************)
\* The most documents a raw collection holds, over all its groups.
MaxDocs == 3
\* The largest result-count limit tried besides the default one.
MaxTopK == 2
\* The most documents in a list handed to build_prompt.
MaxResults == 3

(***************************************************************************)
(* Python str helpers.                                                     *)
(***************************************************************************)
\* Characters str.strip() removes that have no escape in a string: the
\* vertical tab (0x0b), the four separators FS, GS, RS, US (0x1c to 0x1f),
\* the next-line character (0x85) and the no-break space (0xa0).
VT == ""
FS == ""
GS == ""
RS == ""
US == ""
NEL == ""
NBSP == " "

\* The characters str.strip() removes (those for which str.isspace() holds),
\* up to code point 255.  Python strips the Unicode spaces above it too
\* (U+1680, U+2000 to U+200A, U+2028, U+2029, U+202F, U+205F, U+3000); a
\* string of this module cannot hold them.
WhiteSpace ==
    {" ", "\t", "\n", "\r", "\f", VT, FS, GS, RS, US, NEL, NBSP}

CharAt(s, i) == SubSeq(s, i, i)

RECURSIVE LStrip(_)
LStrip(s) ==
    IF Len(s) > 0 /\ CharAt(s, 1) \in WhiteSpace
    THEN LStrip(SubSeq(s, 2, Len(s)))
    ELSE s

RECURSIVE RStrip(_)
RStrip(s) ==
    IF Len(s) > 0 /\ CharAt(s, Len(s)) \in WhiteSpace
    THEN RStrip(SubSeq(s, 1, Len(s) - 1))
    ELSE s

\* str.strip()
Strip(s) == LStrip(RStrip(s))

\* t in s
Contains(s, t) ==
    \E i \in 1..(Len(s) - Len(t) + 1) : SubSeq(s, i, i + Len(t) - 1) = t

(***************************************************************************)
(* Python dict helpers.                                                    *)
(***************************************************************************)
\* d[k] = v
DictSet(d, k, v) ==
    [x \in (DOMAIN d) \cup {k} |-> IF x = k THEN v ELSE d[x]]

(***************************************************************************)
(* load_and_indexknowledge_base: the flattening loop.                      *)
(***************************************************************************)
\* doc['course'] = course_dict['course'], with a setdefault in its place.
TagKeepExisting(doc, course_dict) ==
    IF "course" \in DOMAIN doc THEN doc
    ELSE DictSet(doc, "course", course_dict.course)

\* doc['course'] = course_dict['course']
Tag(doc, course_dict) == DictSet(doc, "course", course_dict.course)

\* The inner loop: the documents of one group, tagged, in their order.
FlattenGroup(course_dict) ==
    [i \in 1..Len(course_dict.documents) |->
        Tag(course_dict.documents[i], course_dict)]

\* The outer loop: knowledge_base after the groups of raw, in their order.
RECURSIVE Flatten(_)
Flatten(raw) ==
    IF raw = <<>> THEN <<>>
    ELSE FlattenGroup(Head(raw)) \o Flatten(Tail(raw))

(***************************************************************************)
(* minsearch.Index.  The library's code is no part of the repository: the  *)
(* definitions of this section follow the specification (sections 4.2 and  *)
(* 4.3) for tokens, scores and ranking.  What a search does with a filter  *)
(* on a field that is no keyword field, with a document that scores zero,  *)
(* and with a limit that is not positive is left open: each is a choice    *)
(* among LibraryBehaviours, made anew at every search.                     *)
(***************************************************************************)
Letters ==
    {"a", "b", "c", "d", "e", "f", "g", "h", "i", "j", "k", "l", "m",
     "n", "o", "p", "q", "r", "s", "t", "u", "v", "w", "x", "y", "z",
     "A", "B", "C", "D", "E", "F", "G", "H", "I", "J", "K", "L", "M",
     "N", "O", "P", "Q", "R", "S", "T", "U", "V", "W", "X", "Y", "Z",
     "0", "1", "2", "3", "4", "5", "6", "7", "8", "9"}

\* The tokens of s: its maximal runs of letters and digits.
RECURSIVE Scan(_, _, _, _)
Scan(s, i, cur, acc) ==
    LET done == IF cur = "" THEN acc ELSE acc \cup {cur}
    IN  IF i > Len(s) THEN done
        ELSE IF CharAt(s, i) \in Letters
             THEN Scan(s, i + 1, cur \o CharAt(s, i), acc)
             ELSE Scan(s, i + 1, "", done)

Tokens(s) == Scan(s, 1, "", {})

\* An absent text field counts as the empty string.
FieldText(doc, f) == IF f \in DOMAIN doc THEN doc[f] ELSE ""

\* minsearch.Index(text_fields=..., keyword_fields=...)
IndexNew(text_fields, keyword_fields) ==
    [fitted |-> FALSE, text_fields |-> text_fields,
     keyword_fields |-> keyword_fields, docs |-> <<>>, tokens |-> <<>>]

\* index.fit(docs): keeps the corpus and tokenizes every text field.
IndexFit(ix, docs) ==
    [ix EXCEPT !.fitted = TRUE, !.docs = docs,
        !.tokens = [i \in 1..Len(docs) |->
                       [f \in ix.text_fields |-> Tokens(FieldText(docs[i], f))]]]

RECURSIVE SetSum(_, _)
SetSum(S, w) ==
    IF S = {} THEN 0
    ELSE LET x == CHOOSE y \in S : TRUE
         IN  w[x] + SetSum(S \ {x}, w)

\* What Index.search may do where nothing in the repository decides it.
LibraryBehaviours ==
    [other_filters : {"ignore", "apply"},
     zero_score : {"keep", "drop"},
     nonpositive : {"raise", "slice"}]

\* The filters that count: those on a declared keyword field, and those on
\* any other field when the library applies them too.
EffectiveFilters(ix, lib, filter_dict) ==
    IF filter_dict.none THEN {}
    ELSE IF lib.other_filters = "apply" THEN DOMAIN filter_dict.val
    ELSE (DOMAIN filter_dict.val) \cap ix.keyword_fields

\* Document i passes the filters: each filtered field that counts is
\* present and equals the required value exactly.
Passes(ix, lib, filter_dict, i) ==
    \A f \in EffectiveFilters(ix, lib, filter_dict) :
        f \in DOMAIN ix.docs[i] /\ ix.docs[i][f] = filter_dict.val[f]

\* The weight of text field f: its boost, 1 when it has none.
Weight(boost_dict, f) ==
    IF ~boost_dict.none /\ f \in DOMAIN boost_dict.val
    THEN boost_dict.val[f] ELSE 1

\* The relevance of document i to a query of tokens qtokens: per text field
\* the number of query tokens it holds, weighted by the field's boost.
Score(ix, qtokens, boost_dict, i) ==
    SetSum(ix.text_fields,
           [f \in ix.text_fields |->
               Weight(boost_dict, f)
                 * Cardinality(qtokens \cap ix.tokens[i][f])])

\* The positions of cands by descending score, ties in corpus order.
RECURSIVE Ranked(_, _)
Ranked(cands, score) ==
    IF cands = {} THEN <<>>
    ELSE LET best == CHOOSE i \in cands :
                        \A j \in cands :
                            \/ score[i] > score[j]
                            \/ score[i] = score[j] /\ i <= j
         IN  <<best>> \o Ranked(cands \ {best}, score)

Min(a, b) == IF a <= b THEN a ELSE b

\* How many of len ranked documents a limit of num_results keeps: the
\* first num_results, and with a limit that is not positive all but the
\* last -num_results (the cut of a list at num_results).
Kept(len, num_results) ==
    IF num_results > 0 THEN Min(num_results, len)
    ELSE IF len + num_results > 0 THEN len + num_results ELSE 0

\* index.search(query, boost_dict=..., filter_dict=..., num_results=...)
\* by a library that behaves as lib.
IndexSearch(ix, lib, query, boost_dict, filter_dict, num_results) ==
    IF num_results <= 0 /\ lib.nonpositive = "raise"
    THEN [kind |-> "raise", error |-> "ValidationError"]
    ELSE LET n == Len(ix.docs)
             qtokens == Tokens(query)
             score == [i \in 1..n |-> Score(ix, qtokens, boost_dict, i)]
             cands == {i \in 1..n :
                          /\ Passes(ix, lib, filter_dict, i)
                          /\ lib.zero_score = "keep" \/ score[i] > 0}
             order == Ranked(cands, score)
         IN  Return([k \in 1..Kept(Len(order), num_results) |->
                        ix.docs[order[k]]])

\* The index after a search: the specification (section 3) has it read
\* only once built.
IndexAfterSearch(ix) == ix

(***************************************************************************)
(* search: the call of Index.search with the arguments as they came, and   *)
(* its result returned as it is.  lib is the behaviour of the library the  *)
(* call reaches.                                                           *)
(***************************************************************************)
search(ix, lib, query, boost_dict, filter_dict, top_k) ==
    IndexSearch(ix, lib, query, boost_dict, filter_dict, top_k)

(***************************************************************************)
(* build_prompt.                                                           *)
(***************************************************************************)
\* The three literal parts of the triple-quoted template, around
\* {question} and {context}.
RawTemplatePre ==
    "\nYou're a course teaching assistant. Answer the QUESTION based on the CONTEXT from the FAQ database.\nUse only the facts from the CONTEXT when answering the QUESTION.\n\nQUESTION: "

RawTemplateMid == "\n\nCONTEXT:\n"
RawTemplatePost == "\n"

\* prompt_template after its .strip(): the placeholders are not white
\* space, so only the first part loses its head and the last its tail.
TemplatePre == LStrip(RawTemplatePre)
TemplateMid == RawTemplateMid
TemplatePost == RStrip(RawTemplatePost)

\* format with the two values in each other's place.
FormatSwapped(question, context) ==
    TemplatePre \o context \o TemplateMid \o question \o TemplatePost

\* prompt_template.format(question=..., context=...)
Format(question, context) ==
    TemplatePre \o question \o TemplateMid \o context \o TemplatePost

\* doc.get(key, ''), in the place of doc[key].
SubscriptOrEmpty(doc, key) ==
    Return(IF key \in DOMAIN doc THEN doc[key] ELSE "")

\* doc[key]: the value, or KeyError(key).
Subscript(doc, key) ==
    IF key \in DOMAIN doc THEN Return(doc[key])
    ELSE [kind |-> "raise", error |-> "KeyError", key |-> key]

\* The f-string of one document with doc['text'].strip() in it.
EntryStripsText(doc) ==
    LET section == Subscript(doc, "section")
        question == Subscript(doc, "question")
        text == Subscript(doc, "text")
    IN  IF section.kind = "raise" THEN section
        ELSE IF question.kind = "raise" THEN question
        ELSE IF text.kind = "raise" THEN text
        ELSE Return("section: " \o section.value \o "\nquestion: "
                    \o question.value \o "\nanswer: " \o Strip(text.value)
                    \o "\n\n")

\* The f-string of one document; its three subscripts are evaluated from
\* left to right and the first absent key raises.
Entry(doc) ==
    LET section == Subscript(doc, "section")
        question == Subscript(doc, "question")
        text == Subscript(doc, "text")
    IN  IF section.kind = "raise" THEN section
        ELSE IF question.kind = "raise" THEN question
        ELSE IF text.kind = "raise" THEN text
        ELSE Return("section: " \o section.value \o "\nquestion: "
                    \o question.value \o "\nanswer: " \o text.value
                    \o "\n\n")

\* context = f"..." + context
AccumulateInFront(context, entry) == entry \o context

\* context = context + f"..."
Accumulate(context, entry) == context \o entry

\* The for loop over search_results, from the context so far.
RECURSIVE Loop(_, _)
Loop(search_results, context) ==
    IF search_results = <<>> THEN [out |-> Return(context), context |-> context]
    ELSE LET entry == Entry(Head(search_results))
         IN  IF entry.kind = "raise"
             THEN [out |-> entry, context |-> context]
             ELSE Loop(Tail(search_results), Accumulate(context, entry.value))

\* build_prompt whose context is not reset: it starts from the context the
\* previous call ended with.
build_prompt_keeps_context(query, search_results) ==
    LET start == IF p_last.op = "build_prompt" THEN p_last.context ELSE ""
        loop == Loop(search_results, start)
    IN  IF loop.out.kind = "raise" THEN loop
        ELSE [out |-> Return(Strip(Format(query, loop.context))),
              context |-> loop.context]

\* build_prompt(query, search_results): the outcome, and the local context
\* as the call leaves it.
build_prompt(query, search_results) ==
    LET loop == Loop(search_results, "")
    IN  IF loop.out.kind = "raise" THEN loop
        ELSE [out |-> Return(Strip(Format(query, loop.context))),
              context |-> loop.context]

(***************************************************************************)
(* llm.  answer is what the chat service does with a request of this call: *)
(* it raises, or it returns a response with a list of choices.             *)
(***************************************************************************)
\* client.chat.completions.create(model=..., messages=[...])
Request(prompt, model_name) ==
    [model |-> model_name,
     messages |-> <<[role |-> "user", content |-> prompt]>>]

\* response.choices[0].message.content
FirstContent(response) ==
    IF response.choices = <<>>
    THEN [kind |-> "raise", error |-> "IndexError"]
    ELSE Return(response.choices[1].message.content)

\* llm that sends the request a second time when the first one fails.
llm_retries(answer, prompt, model_name) ==
    IF answer.kind = "raise"
    THEN [requests |-> <<Request(prompt, model_name), Request(prompt, model_name)>>,
          out |-> answer]
    ELSE [requests |-> <<Request(prompt, model_name)>>,
          out |-> FirstContent(answer.value)]

\* llm(client, prompt, model_name): the requests it sends and its outcome.
llm(answer, prompt, model_name) ==
    [requests |-> <<Request(prompt, model_name)>>,
     out |-> IF answer.kind = "raise" THEN answer
             ELSE FirstContent(answer.value)]

(***************************************************************************)
(* Inputs.                                                                 *)
(***************************************************************************)
\* top_k: int = 5
DefaultTopK == 5

DocA ==
    [question |-> "How do I enroll?", text |-> "Fill the form.",
     section |-> "General"]

\* A document that comes with a course field of its own.
DocB ==
    [question |-> "Is there a form?", text |-> "Yes.", section |-> "Setup",
     course |-> "old"]

RawDocs == {DocA, DocB}
Courses == {"c1", "c2"}

ListsOver(S, n) == UNION {[1..k -> S] : k \in 0..n}

Groups == [course : Courses, documents : ListsOver(RawDocs, MaxDocs)]

RECURSIVE TotalDocs(_)
TotalDocs(raw) ==
    IF raw = <<>> THEN 0
    ELSE Len(Head(raw).documents) + TotalDocs(Tail(raw))

\* The raw collections: at most one group per course, in any order.
RawCollections ==
    {raw \in ListsOver(Groups, Cardinality(Courses)) :
        /\ TotalDocs(raw) <= MaxDocs
        /\ \A g, h \in 1..Len(raw) : raw[g].course = raw[h].course => g = h}

Queries == {"", "enroll", "form"}
BoostDicts == {None, Some([question |-> 3])}
FilterDicts == {None, Some([course |-> "c1"]), Some([section |-> "General"])}
TopKs == (-1..MaxTopK) \cup {DefaultTopK}

\* Documents as build_prompt may get them: one as the loader makes it, one
\* whose values end in white space (a vertical tab in it), one whose text
\* is white space only (a space and two separators),
\* and three that lack a field each.
PromptDocA == Tag(DocA, [course |-> "c1"])

PromptDocB ==
    [question |-> "Is there a form?", text |-> " Yes. " \o VT \o "\n",
     section |-> "Setup ", course |-> "c2"]

PromptDocBlank ==
    [question |-> "Why?", text |-> " " \o FS \o US, section |-> "Misc",
     course |-> "c2"]

PromptDocNoSection ==
    [question |-> "Where?", text |-> "Here.", course |-> "c1"]

PromptDocNoQuestion ==
    [text |-> "Soon.", section |-> "General", course |-> "c1"]

PromptDocNoText ==
    [question |-> "When?", section |-> "General", course |-> "c1"]

PromptDocs ==
    {PromptDocA, PromptDocB, PromptDocBlank, PromptDocNoSection,
     PromptDocNoQuestion, PromptDocNoText}
ResultLists == ListsOver(PromptDocs, MaxResults)
PromptQueries == {"enroll", " is there a form? "}

\* The lists that hold the elements of list l in another or the same order.
Reorderings(l) ==
    {[i \in 1..Len(l) |-> l[pi[i]]] :
        pi \in {f \in [1..Len(l) -> 1..Len(l)] :
                   \A i, j \in 1..Len(l) : f[i] = f[j] => i = j}}

\* model_name: str = 'gpt-4o', or another model.
ModelNames == {"gpt-4o", "gpt-4o-mini"}

Choice(content) == [message |-> [role |-> "assistant", content |-> content]]

\* What the chat service may do with a request.
ServiceAnswers ==
    {[kind |-> "raise", error |-> e] :
        e \in {"APIConnectionError", "AuthenticationError", "RateLimitError"}}
    \cup {Return([choices |-> c]) :
            c \in {<<>>, <<Choice("Fill the form.")>>,
                   <<Choice("Fill the form."), Choice("Ask the staff.")>>}}

\* The raw collection of the end-to-end scenario, and one of two courses.
ScenarioOne == <<[course |-> "c1", documents |-> <<DocA>>]>>

ScenarioTwo ==
    <<[course |-> "c1", documents |-> <<DocA>>],
      [course |-> "c2", documents |-> <<DocB>>]>>

Scenarios == {ScenarioOne, ScenarioTwo}

(***************************************************************************)
(* Actions.                                                                *)
(***************************************************************************)
\* load_and_indexknowledge_base(file_path), the file holding docs_raw: the
\* file is there and holds a valid collection (a missing file, bad JSON or
\* a group without 'course' or 'documents' raises before any index exists).
Load ==
    /\ ~index.fitted
    /\ knowledge_base' = Flatten(docs_raw)
    /\ index' = IndexFit(IndexNew({"question", "text", "section"}, {"course"}),
                         knowledge_base')
    /\ UNCHANGED <<docs_raw, s_call, results_in, p_first, p_last, l_call>>

\* search(index, query, boost_dict, filter_dict, top_k).  A search opens a
\* new request: the records of the previous request's later calls go.
Search ==
    /\ index.fitted
    /\ \E query \in Queries, boost_dict \in BoostDicts,
          filter_dict \in FilterDicts, top_k \in TopKs,
          lib \in LibraryBehaviours :
          s_call' = [op |-> "search", query |-> query,
                     boost_dict |-> boost_dict,
                     filter_dict |-> filter_dict, top_k |-> top_k,
                     out |-> search(index, lib, query, boost_dict,
                                    filter_dict, top_k)]
    /\ index' = IndexAfterSearch(index)
    /\ p_first' = NoCall
    /\ p_last' = NoCall
    /\ l_call' = NoCall
    /\ UNCHANGED <<docs_raw, knowledge_base, results_in>>

\* build_prompt(query, search_results).
BuildPrompt(query, search_results) ==
    LET r == build_prompt(query, search_results)
        call == [op |-> "build_prompt", query |-> query,
                 search_results |-> search_results, out |-> r.out,
                 context |-> r.context]
    IN  /\ p_last' = call
        /\ p_first' = IF p_first = NoCall THEN call ELSE p_first
        /\ l_call' = NoCall
        /\ UNCHANGED <<docs_raw, knowledge_base, index, s_call, results_in>>

\* The first rendering: of the list at hand, as it is.
RenderAtHand ==
    /\ p_first = NoCall
    /\ \E query \in PromptQueries : BuildPrompt(query, results_in)

\* A later rendering: of the list at hand in any order.
RenderReordered ==
    /\ p_first # NoCall
    /\ \E query \in PromptQueries, search_results \in Reorderings(results_in) :
          BuildPrompt(query, search_results)

\* build_prompt(query, results) on the query and the results of the last
\* search.
RenderResults ==
    /\ s_call.op = "search"
    /\ s_call.out.kind = "return"
    /\ BuildPrompt(s_call.query, s_call.out.value)

\* llm(client, prompt, model_name) on the last prompt built.
Ask ==
    /\ p_last.op = "build_prompt"
    /\ p_last.out.kind = "return"
    /\ \E model_name \in ModelNames, answer \in ServiceAnswers :
          LET r == llm(answer, p_last.out.value, model_name)
          IN  l_call' = [op |-> "llm", prompt |-> p_last.out.value,
                         model_name |-> model_name, answer |-> answer,
                         requests |-> r.requests, out |-> r.out]
    /\ UNCHANGED <<docs_raw, knowledge_base, index, s_call, results_in,
                   p_first, p_last>>

(***************************************************************************)
(* The loader over every small raw collection.                             *)
(***************************************************************************)
InitLoad ==
    /\ docs_raw \in RawCollections
    /\ knowledge_base = <<>>
    /\ index = NoIndex
    /\ s_call = NoCall
    /\ results_in = <<>>
    /\ p_first = NoCall
    /\ p_last = NoCall
    /\ l_call = NoCall

NextLoad == Load

SpecLoad == InitLoad /\ [][NextLoad]_vars

(***************************************************************************)
(* Claims about the loader (under SpecLoad).                               *)
(***************************************************************************)
\* The number of documents of raw in the groups before group g.
RECURSIVE DocsBefore(_, _)
DocsBefore(raw, g) ==
    IF g <= 1 THEN 0
    ELSE DocsBefore(raw, g - 1) + Len(raw[g - 1].documents)

\* C1: the corpus handed to Index.fit is the groups' documents, group after
\* group and document after document: it is as long as all the groups'
\* documents together, and the document of group g at place d stands at
\* place DocsBefore(g) + d, with the raw document's fields and the course
\* field set to the group's identifier, whatever course the raw document
\* had.
C1_FlatCorpusInOrder ==
    index.fitted =>
        /\ Len(knowledge_base) = TotalDocs(docs_raw)
        /\ \A g \in 1..Len(docs_raw) :
              \A d \in 1..Len(docs_raw[g].documents) :
                  LET raw == docs_raw[g].documents[d]
                      doc == knowledge_base[DocsBefore(docs_raw, g) + d]
                  IN  /\ DOMAIN doc = (DOMAIN raw) \cup {"course"}
                      /\ doc["course"] = docs_raw[g].course
                      /\ \A f \in (DOMAIN raw) \ {"course"} : doc[f] = raw[f]

\* Two non-empty groups are loaded, and a raw document had a course field
\* that is not its group's identifier.
C1_Witness ==
    /\ index.fitted
    /\ Len(docs_raw) = 2
    /\ \A g \in 1..2 : Len(docs_raw[g].documents) > 0
    /\ \E g \in 1..2 :
          \E d \in 1..Len(docs_raw[g].documents) :
              LET raw == docs_raw[g].documents[d]
              IN  "course" \in DOMAIN raw /\ raw["course"] # docs_raw[g].course

(***************************************************************************)
(* build_prompt over every small list of documents.                        *)
(***************************************************************************)
InitPrompt ==
    /\ docs_raw = <<>>
    /\ knowledge_base = <<>>
    /\ index = NoIndex
    /\ s_call = NoCall
    /\ results_in \in ResultLists
    /\ p_first = NoCall
    /\ p_last = NoCall
    /\ l_call = NoCall

NextPrompt == RenderAtHand \/ RenderReordered

SpecPrompt == InitPrompt /\ [][NextPrompt]_vars

(***************************************************************************)
(* Claims about build_prompt (under SpecPrompt).                           *)
(***************************************************************************)
Rendered == p_last.op = "build_prompt" /\ p_last.out.kind = "return"

Complete(doc) == {"section", "question", "text"} \subseteq DOMAIN doc

\* The labelled block of a complete document.
Block(doc) ==
    "section: " \o doc["section"] \o "\nquestion: " \o doc["question"]
        \o "\nanswer: " \o doc["text"]

\* The blank line after a block.
Gap == "\n\n"

\* The fixed text of the prompt up to the context block.
Heading(query) ==
    "You're a course teaching assistant. Answer the QUESTION based on the CONTEXT from the FAQ database.\nUse only the facts from the CONTEXT when answering the QUESTION.\n\nQUESTION: "
        \o query \o "\n\nCONTEXT:\n"

\* The length of the blocks of docs before place i, each with its gap.
RECURSIVE LenBefore(_, _)
LenBefore(docs, i) ==
    IF i <= 1 THEN 0
    ELSE LenBefore(docs, i - 1) + Len(Block(docs[i - 1])) + Len(Gap)

\* Text t stands in s right after the first `from` characters of s.
HasAt(s, from, t) ==
    /\ from + Len(t) <= Len(s)
    /\ SubSeq(s, from + 1, from + Len(t)) = t

\* C5 as stated: the prompt is the heading with the literal query and
\* then, for each document in order, its whole block, a blank line between
\* two blocks: no character of a field value is dropped, the last
\* document's included.
C5_NothingDropped ==
    Rendered =>
        LET docs == p_last.search_results
            prompt == p_last.out.value
            start == Len(Heading(p_last.query))
        IN  /\ HasAt(prompt, 0, Heading(p_last.query))
            /\ \A i \in 1..Len(docs) :
                  LET at == start + LenBefore(docs, i)
                  IN  /\ HasAt(prompt, at, Block(docs[i]))
                      /\ i < Len(docs) =>
                            HasAt(prompt, at + Len(Block(docs[i])), Gap)

\* C5 as amended: the same, but white space at the very end of the prompt
\* is removed: the last block stands without its trailing white space, and
\* with no document the prompt is the heading without its last line break.
C5_OnlyTrailingSpaceDropped ==
    Rendered =>
        LET docs == p_last.search_results
            prompt == p_last.out.value
            n == Len(docs)
            start == Len(Heading(p_last.query))
        IN  IF n = 0 THEN prompt = RStrip(Heading(p_last.query))
            ELSE /\ HasAt(prompt, 0, Heading(p_last.query))
                 /\ \A i \in 1..(n - 1) :
                       HasAt(prompt, start + LenBefore(docs, i),
                             Block(docs[i]) \o Gap)
                 /\ HasAt(prompt, start + LenBefore(docs, n),
                          RStrip(Block(docs[n])))
                 /\ Len(prompt) =
                       start + LenBefore(docs, n) + Len(RStrip(Block(docs[n])))

\* A list with the same document twice, then a document whose text ends in
\* white space, has been rendered.
C5_Witness ==
    /\ Rendered
    /\ Len(p_last.search_results) = 3
    /\ p_last.search_results[1] = p_last.search_results[2]
    /\ p_last.search_results[1]["text"] # Strip(p_last.search_results[1]["text"])
    /\ p_last.search_results[3]["text"] # RStrip(p_last.search_results[3]["text"])

\* C6: a second rendering of the same query and list gives the first
\* rendering's prompt, and the context block of a rendering holds the
\* blocks of its list in the list's order, each at the place the blocks
\* before it leave.
C6_DeterministicInListOrder ==
    /\ (/\ p_last.op = "build_prompt"
        /\ p_last.query = p_first.query
        /\ p_last.search_results = p_first.search_results)
          => p_last.out = p_first.out
    /\ Rendered =>
          LET docs == p_last.search_results
          IN  /\ Len(p_last.context) = LenBefore(docs, Len(docs) + 1)
              /\ \A i \in 1..Len(docs) :
                    HasAt(p_last.context, LenBefore(docs, i),
                          Block(docs[i]) \o Gap)

\* A list of different documents was rendered, and then rendered again in
\* another order.
C6_Witness ==
    /\ Rendered
    /\ p_first.out.kind = "return"
    /\ Len(p_last.search_results) >= 2
    /\ p_last.search_results # p_first.search_results
    /\ p_last.search_results[1] # p_last.search_results[2]

\* The first subscript of build_prompt's loop that finds no key: of the
\* first incomplete document, the first of section, question, text.
RECURSIVE FirstAbsent(_)
FirstAbsent(docs) ==
    IF Complete(Head(docs)) THEN FirstAbsent(Tail(docs))
    ELSE IF "section" \notin DOMAIN Head(docs) THEN "section"
    ELSE IF "question" \notin DOMAIN Head(docs) THEN "question"
    ELSE "text"

\* C8: when a document of search_results lacks section, question or text,
\* build_prompt raises the key error of the absent field and returns no
\* prompt, wherever the document stands.
C8_AbsentFieldRaises ==
    (/\ p_last.op = "build_prompt"
     /\ \E i \in 1..Len(p_last.search_results) :
           ~Complete(p_last.search_results[i]))
        => /\ p_last.out.kind = "raise"
           /\ p_last.out.error = "KeyError"
           /\ p_last.out.key = FirstAbsent(p_last.search_results)

\* build_prompt raised on a list whose only incomplete document is the
\* last of three.
C8_Witness ==
    /\ p_last.op = "build_prompt"
    /\ p_last.out.kind = "raise"
    /\ Len(p_last.search_results) = 3
    /\ Complete(p_last.search_results[1])
    /\ Complete(p_last.search_results[2])
    /\ "text" \notin DOMAIN p_last.search_results[3]

(***************************************************************************)
(* The pipeline: load, then per request search, build_prompt and llm.      *)
(***************************************************************************)
Init ==
    /\ docs_raw \in Scenarios
    /\ knowledge_base = <<>>
    /\ index = NoIndex
    /\ s_call = NoCall
    /\ results_in = <<>>
    /\ p_first = NoCall
    /\ p_last = NoCall
    /\ l_call = NoCall

Next == Load \/ Search \/ RenderResults \/ Ask

Spec == Init /\ [][Next]_vars

\* The end-to-end scenario's search: "enroll", no filters, limit 5.
ScenarioSearched ==
    /\ docs_raw = ScenarioOne
    /\ s_call.op = "search"
    /\ s_call.query = "enroll"
    /\ s_call.filter_dict = None
    /\ s_call.top_k = 5

\* C7: in the end-to-end scenario the search returns exactly the one
\* document, tagged with its course, and the prompt built from it is the
\* instructions with the literal question "enroll" and the context block
\* of the document's section, question and answer lines.
C7_EndToEnd ==
    ScenarioSearched =>
        /\ s_call.out =
              Return(<<[question |-> "How do I enroll?",
                        text |-> "Fill the form.", section |-> "General",
                        course |-> "c1"]>>)
        /\ p_last.op = "build_prompt" =>
              /\ p_last.out =
                    Return("You're a course teaching assistant. Answer the QUESTION based on the CONTEXT from the FAQ database.\nUse only the facts from the CONTEXT when answering the QUESTION.\n\nQUESTION: enroll\n\nCONTEXT:\nsection: General\nquestion: How do I enroll?\nanswer: Fill the form.")
              /\ Contains(p_last.context, "section: General")
              /\ Contains(p_last.context, "question: How do I enroll?")
              /\ Contains(p_last.context, "answer: Fill the form.")

\* The scenario's search has run and its prompt is built.
C7_Witness ==
    /\ ScenarioSearched
    /\ p_last.op = "build_prompt"

\* C9: a call of llm sends exactly one request, with the model name and
\* the prompt as the only message, of role user; it returns the first
\* choice's content when the service answers with choices, and raises the
\* service's own error when the service fails.
C9_OneRequestNoRetry ==
    l_call.op = "llm" =>
        /\ l_call.requests =
              <<[model |-> l_call.model_name,
                 messages |-> <<[role |-> "user", content |-> l_call.prompt]>>]>>
        /\ (l_call.answer.kind = "return"
              /\ l_call.answer.value.choices # <<>>)
              => l_call.out =
                    Return(l_call.answer.value.choices[1].message.content)
        /\ l_call.answer.kind = "raise" => l_call.out = l_call.answer

\* A call of llm has met a quota failure of the service.
C9_Witness ==
    /\ l_call.op = "llm"
    /\ l_call.answer.kind = "raise"
    /\ l_call.answer.error = "RateLimitError"
    /\ l_call.out.kind = "raise"

=============================================================================
